---- MODULE Spec2Model ----
(***************************************************************************)
(* Model of src/app.py (ISOCH price poster generator).                     *)
(*                                                                         *)
(* The program has six independent parts , each given its own              *)
(* specification over its own group of variables (the other groups stay    *)
(* idle):                                                                  *)
(*   SpecFit    - ellipsize (text fitting against a font metric)           *)
(*   SpecLayout - build_poster / build_master_table (row placement)        *)
(*   SpecParse  - parse_excel (delivered price, de-duplication)            *)
(*   SpecMapping - the GitHub-backed destination mapping, two sessions     *)
(*   SpecLog    - the GitHub-backed send log, two sessions                 *)
(*   SpecRun    - one "Generate + Email + Downloads" run                   *)
(***************************************************************************)
EXTENDS Integers, Sequences, FiniteSets, TLC

VARIABLES
    \* ---- ellipsize
    fpc,        \* "idle" | "in" | "once" | "twice"
    ftext,      \* the text handed to ellipsize (a sequence of glyphs)
    fwidth,     \* max_width
    fout,       \* ellipsize(text, max_width)
    fout2,      \* ellipsize(fout, max_width)
    \* ---- build_poster / build_master_table
    lpc,        \* position in the drawing function
    lkind,      \* "poster" | "master" | "none"
    lrows,      \* poster: the rows argument (sequence of products, sorted by the caller)
    lblocks,    \* master: number of product rows of each destination, in sorted order
    ly,         \* the local y
    li,         \* poster: index of the next row; master: index of the next row of the block
    ld,         \* master: index of the current destination block
    placed,     \* draw calls made so far, in order
    \* ---- parse_excel
    ppc,        \* "idle" | "in" | "out"
    ptable,     \* the uploaded sheet: [hasFor, rows]
    pout,       \* the returned frame (set of rows, one per group)
    \* ---- GitHub store and sessions
    mapFile,    \* config/destination_mapping.json in the repository: [exists, content]
    logFile,    \* logs/price_sent_log.jsonl in the repository: [exists, content]
    spc,        \* per session: position
    smapping,   \* per session: the script's mapping dict
    smapok,     \* per session: mapping_ok
    sedit,      \* per session: the destination edited by "Save mapping"
    sread,      \* per session: (content, sha) of the last gh_read_text
    sdone,      \* per session: number of operations started (bounded)
    sresult,    \* per session: what the last operation showed ("ok" | "error" | "none")
    \* ---- Generate + Email run
    rpc,        \* position in the button handler
    rmode,      \* "one" | "dest" | "none"
    rsel,       \* the selected destinations, in selection order
    rsent,      \* number of send_email_with_attachments calls that returned
    rlog,       \* the append_log_to_github call: "none" | "appended" | "failed"
    rresult     \* "running" | "stopped" | "raised" | "success"

fitVars    == <<fpc, ftext, fwidth, fout, fout2>>
layoutVars == <<lpc, lkind, lrows, lblocks, ly, li, ld, placed>>
parseVars  == <<ppc, ptable, pout>>
storeVars  == <<mapFile, logFile, spc, smapping, smapok, sedit, sread, sdone, sresult>>
runVars    == <<rpc, rmode, rsel, rsent, rlog, rresult>>
vars       == <<fitVars, layoutVars, parseVars, storeVars, runVars>>

\* ------------------------------------------------------------------------
\* Generic helpers
\* ------------------------------------------------------------------------
Min(a, b) == IF a <= b THEN a ELSE b
Max(a, b) == IF a >= b THEN a ELSE b
Prefix(s, k) == SubSeq(s, 1, k)

RECURSIVE SeqsUpTo(_, _)
SeqsUpTo(S, n) ==
    IF n = 0 THEN {<<>>}
    ELSE LET shorter == SeqsUpTo(S, n - 1)
         IN  shorter \cup {Append(s, x) : s \in {t \in shorter : Len(t) = n - 1}, x \in S}

\* ------------------------------------------------------------------------
\* Idle values of each variable group
\* ------------------------------------------------------------------------
FitIdle ==
    /\ fpc = "idle" /\ ftext = <<>> /\ fwidth = 0 /\ fout = <<>> /\ fout2 = <<>>
LayoutIdle ==
    /\ lpc = "idle" /\ lkind = "none" /\ lrows = <<>> /\ lblocks = <<>>
    /\ ly = 0 /\ li = 0 /\ ld = 0 /\ placed = <<>>
ParseIdle ==
    /\ ppc = "idle" /\ ptable = [hasFor |-> TRUE, rows |-> <<>>] /\ pout = {}
StoreIdle ==
    /\ mapFile = <<>> /\ logFile = <<>>
    /\ spc = <<>> /\ smapping = <<>> /\ sedit = <<>> /\ sread = <<>> /\ sdone = <<>>
    /\ sresult = <<>> /\ smapok = <<>>
RunIdle ==
    /\ rpc = "idle" /\ rmode = "none" /\ rsel = <<>> /\ rsent = 0
    /\ rlog = "none" /\ rresult = "running"

\* ========================================================================
\* ellipsize (src/app.py 173-179)
\* ========================================================================
MaxLen == 4
MaxWidth == 6

\* U+2026, the truncation marker, as one glyph
Ellipsis == "..."
\* the glyphs of the font: a narrow one, a wide one, a zero-width one
\* (U+200B) and the marker
Glyphs == {"i", "W", "zw", Ellipsis}
\* draw.textlength of one glyph (the font is not fixed-pitch)
GlyphWidth(c) == CASE c = "i" -> 1 [] c = "W" -> 3 [] c = "zw" -> 0 [] OTHER -> 2

\* draw.textlength(text, font=font): advance widths add up
RECURSIVE textlength(_)
textlength(s) == IF s = <<>> THEN 0 ELSE GlyphWidth(Head(s)) + textlength(Tail(s))

\* s[:-1]
DropLast(s) == SubSeq(s, 1, Len(s) - 1)

\* while s and draw.textlength(s + "...", font=font) > max_width: s = s[:-1]
RECURSIVE Shrink(_, _)
Shrink(s, max_width) ==
    IF s # <<>> /\ textlength(Append(s, Ellipsis)) > max_width
    THEN Shrink(DropLast(s), max_width)
    ELSE s

\* faulty variant: the loop measures s without the marker it is going to append
RECURSIVE ShrinkBare(_, _)
ShrinkBare(s, max_width) ==
    IF s # <<>> /\ textlength(s) > max_width
    THEN ShrinkBare(DropLast(s), max_width)
    ELSE s
ellipsizeBareMeasure(text, max_width) ==
    IF textlength(text) <= max_width THEN text
    ELSE LET s == ShrinkBare(text, max_width)
         IN  IF s # <<>> THEN Append(s, Ellipsis) ELSE <<Ellipsis>>

\* faulty variant: the loop drops characters from the left (s = s[1:])
RECURSIVE ShrinkLeft(_, _)
ShrinkLeft(s, max_width) ==
    IF s # <<>> /\ textlength(Append(s, Ellipsis)) > max_width
    THEN ShrinkLeft(Tail(s), max_width)
    ELSE s
ellipsizeFromLeft(text, max_width) ==
    IF textlength(text) <= max_width THEN text
    ELSE LET s == ShrinkLeft(text, max_width)
         IN  IF s # <<>> THEN Append(s, Ellipsis) ELSE <<Ellipsis>>

\* faulty variant: the early return for a text that already fits is missing
ellipsizeNoFitCheck(text, max_width) ==
    LET s == Shrink(text, max_width)
    IN  IF s # <<>> THEN Append(s, Ellipsis) ELSE <<Ellipsis>>

ellipsize(text, max_width) ==
    IF textlength(text) <= max_width THEN text
    ELSE LET s == Shrink(text, max_width)
         IN  IF s # <<>> THEN Append(s, Ellipsis) ELSE <<Ellipsis>>

FitInit ==
    /\ fpc = "in"
    /\ ftext \in SeqsUpTo(Glyphs, MaxLen)
    /\ fwidth \in 0..MaxWidth
    /\ fout = <<>>
    /\ fout2 = <<>>

\* product = ellipsize(draw, ..., max_product_width)
FitCall ==
    /\ fpc = "in"
    /\ fout' = ellipsize(ftext, fwidth)
    /\ fpc' = "once"
    /\ UNCHANGED <<ftext, fwidth, fout2>>
    /\ UNCHANGED <<layoutVars, parseVars, storeVars, runVars>>

\* the result of one call handed to ellipsize again
FitAgain ==
    /\ fpc = "once"
    /\ fout2' = ellipsize(fout, fwidth)
    /\ fpc' = "twice"
    /\ UNCHANGED <<ftext, fwidth, fout>>
    /\ UNCHANGED <<layoutVars, parseVars, storeVars, runVars>>

InitFit == FitInit /\ LayoutIdle /\ ParseIdle /\ StoreIdle /\ RunIdle
NextFit == FitCall \/ FitAgain
SpecFit == InitFit /\ [][NextFit]_vars

\* ---- C3 ----------------------------------------------------------------
\* C3 (as stated): for every text and max_width w >= 0 the string returned
\* by ellipsize measures at most w, and for w = 0 it is the empty string.
C3_Original ==
    fpc # "in" =>
        /\ textlength(fout) <= fwidth
        /\ (fwidth = 0 => fout = <<>>)

\* C3 (amended): the result measures at most w whenever the text itself
\* fits or w is at least the marker's own width; otherwise the result is
\* the marker alone (wider than w).  For w = 0 the result is the text
\* itself when it measures 0 (the empty string for the empty text), and
\* the marker otherwise.
C3_WidthBound ==
    fpc # "in" =>
        /\ (textlength(ftext) <= fwidth \/ fwidth >= textlength(<<Ellipsis>>))
               => textlength(fout) <= fwidth
        /\ (textlength(ftext) > fwidth /\ fwidth < textlength(<<Ellipsis>>))
               => fout = <<Ellipsis>>
        /\ fwidth = 0 =>
               /\ (textlength(ftext) = 0 => fout = ftext)
               /\ (textlength(ftext) > 0 => fout = <<Ellipsis>>)
               /\ (ftext = <<>> => fout = <<>>)

\* a text that does not fit was cut to a non-empty prefix plus marker
C3_Witness ==
    /\ fpc = "once"
    /\ textlength(ftext) > fwidth
    /\ Len(fout) >= 2
    /\ textlength(fout) <= fwidth

\* ---- C4 ----------------------------------------------------------------
\* C4: ellipsize returns the text unchanged when it fits; otherwise it
\* returns p + marker for the longest prefix p of the text with
\* textlength(p + marker) <= max_width, and the marker alone (never the
\* empty string) when no non-empty prefix fits.
C4_LongestPrefix ==
    fpc # "in" =>
        IF textlength(ftext) <= fwidth
        THEN fout = ftext
        ELSE \E k \in 0..Len(ftext) :
                /\ fout = Append(Prefix(ftext, k), Ellipsis)
                /\ (k > 0 => textlength(fout) <= fwidth)
                /\ \A j \in (k + 1)..Len(ftext) :
                      textlength(Append(Prefix(ftext, j), Ellipsis)) > fwidth

\* no non-empty prefix fits: the marker alone comes back for a non-empty text
C4_Witness ==
    /\ fpc = "once"
    /\ ftext # <<>>
    /\ textlength(ftext) > fwidth
    /\ fwidth < textlength(<<Ellipsis>>)
    /\ fout = <<Ellipsis>>

\* ---- C5 ----------------------------------------------------------------
\* C5: ellipsize is idempotent: ellipsize(ellipsize(t, w), w) = ellipsize(t, w).
C5_Idempotent == fpc = "twice" => fout2 = fout

\* the second call was made on a truncated prefix plus marker
C5_Witness ==
    /\ fpc = "twice"
    /\ fout # ftext
    /\ Len(fout) >= 2
    /\ fout2 = fout

\* ========================================================================
\* build_poster (src/app.py 181-231), build_master_table (src/app.py 233-292)
\* ========================================================================
MaxRows == 19
MaxFirst == 2
MaxStride == 2
MaxDests == 3
MaxBlockRows == 8

CANVAS_H == 1600
HEADER_H == 200
STRIP_H == 60
FOOTER_H == 140
ROW_H == 62
TABLE_TOP == HEADER_H + STRIP_H + 20
TITLE_Y == 160

\* max_rows_area_bottom = CANVAS_H - FOOTER_H - 30
max_rows_area_bottom == CANVAS_H - FOOTER_H - 30
\* fy = CANVAS_H - FOOTER_H + 5
fy == CANVAS_H - FOOTER_H + 5

\* faulty variant: the test forgets the height of the row it is about to draw
RowFitsTopOnly(y) == ~(y > max_rows_area_bottom)
\* if y + ROW_H > max_rows_area_bottom: break
RowFits(y) == ~(y + ROW_H > max_rows_area_bottom)

\* faulty variant: rows advance by the header's step, gap included
RowAdvanceGap(y) == y + ROW_H + 6
\* y += ROW_H
RowAdvance(y) == y + ROW_H

Draw(role, y, d, row, zebra) ==
    [role |-> role, y |-> y, d |-> d, row |-> row, zebra |-> zebra]

\* faulty variant: the table header is drawn only when there is something to list
DrawHeaderIfRows(pl, y, empty) ==
    IF empty THEN pl ELSE Append(pl, Draw("header", y, 0, 0, FALSE))
\* draw.rectangle / draw.text "PRODUCT" / "PRICE" / draw.line at y = TABLE_TOP
DrawHeaderRow(pl, y, empty) == Append(pl, Draw("header", y, 0, 0, FALSE))

\* rows as the callers pass them: df rows of one destination, one per product
\* (groupby), sorted by product (sort_values("Product"))
SortedRows(n, first, stride) == [k \in 1..n |-> first + (k - 1) * stride]

LayoutInit ==
    /\ lpc = "title"
    /\ lkind \in {"poster", "master"}
    /\ IF lkind = "poster"
       THEN /\ \E n \in 0..MaxRows, first \in 1..MaxFirst, stride \in 1..MaxStride :
                  lrows = SortedRows(n, first, stride)
            /\ lblocks = <<>>
       ELSE /\ lrows = <<>>
            /\ lblocks \in UNION {[1..nd -> 1..MaxBlockRows] : nd \in 1..MaxDests}
    /\ ly = 0 /\ li = 0 /\ ld = 0
    /\ placed = <<>>

LayoutRest == UNCHANGED <<fitVars, parseVars, storeVars, runVars>>

\* draw.text((TABLE_LEFT, 160), title, ...); draw.text(..., date_str, ...)
DrawTitle ==
    /\ lpc = "title"
    /\ placed' = Append(placed, Draw("title", TITLE_Y, 0, 0, FALSE))
    /\ lpc' = "header"
    /\ UNCHANGED <<lkind, lrows, lblocks, ly, li, ld>>
    /\ LayoutRest

\* y = TABLE_TOP; header row; y += ROW_H + 6
DrawHeader ==
    /\ lpc = "header"
    /\ placed' = DrawHeaderRow(placed, TABLE_TOP,
                               IF lkind = "poster" THEN lrows = <<>> ELSE lblocks = <<>>)
    /\ ly' = TABLE_TOP + ROW_H + 6
    /\ li' = 0
    /\ ld' = 1
    /\ lpc' = IF lkind = "poster" THEN "rows" ELSE "blocks"
    /\ UNCHANGED <<lkind, lrows, lblocks>>
    /\ LayoutRest

\* build_poster: one iteration of the row loop that draws
PosterRow ==
    /\ lpc = "rows"
    /\ li < Len(lrows)
    /\ RowFits(ly)
    /\ placed' = Append(placed, Draw("row", ly, 0, lrows[li + 1], li % 2 = 0))
    /\ ly' = RowAdvance(ly)
    /\ li' = li + 1
    /\ UNCHANGED <<lpc, lkind, lrows, lblocks, ld>>
    /\ LayoutRest

\* build_poster: break
PosterBreak ==
    /\ lpc = "rows"
    /\ li < Len(lrows)
    /\ ~RowFits(ly)
    /\ lpc' = "footer"
    /\ UNCHANGED <<lkind, lrows, lblocks, ly, li, ld, placed>>
    /\ LayoutRest

\* build_poster: the row iterator is exhausted
PosterRowsEnd ==
    /\ lpc = "rows"
    /\ li = Len(lrows)
    /\ lpc' = "footer"
    /\ UNCHANGED <<lkind, lrows, lblocks, ly, li, ld, placed>>
    /\ LayoutRest

\* build_master_table: destination header row of the next block
MasterDest ==
    /\ lpc = "blocks"
    /\ ld <= Len(lblocks)
    /\ RowFits(ly)
    /\ placed' = Append(placed, Draw("dest", ly, ld, 0, FALSE))
    /\ ly' = RowAdvance(ly)
    /\ li' = 0
    /\ lpc' = "blockrows"
    /\ UNCHANGED <<lkind, lrows, lblocks, ld>>
    /\ LayoutRest

\* build_master_table: break of the destination loop
MasterBreak ==
    /\ lpc = "blocks"
    /\ ld <= Len(lblocks)
    /\ ~RowFits(ly)
    /\ lpc' = "footer"
    /\ UNCHANGED <<lkind, lrows, lblocks, ly, li, ld, placed>>
    /\ LayoutRest

\* build_master_table: all destinations done
MasterEnd ==
    /\ lpc = "blocks"
    /\ ld > Len(lblocks)
    /\ lpc' = "footer"
    /\ UNCHANGED <<lkind, lrows, lblocks, ly, li, ld, placed>>
    /\ LayoutRest

\* build_master_table: one product row of the current block
MasterRow ==
    /\ lpc = "blockrows"
    /\ li < lblocks[ld]
    /\ RowFits(ly)
    /\ placed' = Append(placed, Draw("row", ly, ld, li + 1, li % 2 = 0))
    /\ ly' = RowAdvance(ly)
    /\ li' = li + 1
    /\ UNCHANGED <<lpc, lkind, lrows, lblocks, ld>>
    /\ LayoutRest

\* build_master_table: the inner loop ends (break or exhausted); y += 6
MasterBlockEnd ==
    /\ lpc = "blockrows"
    /\ \/ li = lblocks[ld]
       \/ li < lblocks[ld] /\ ~RowFits(ly)
    /\ ly' = ly + 6
    /\ ld' = ld + 1
    /\ lpc' = "blocks"
    /\ UNCHANGED <<lkind, lrows, lblocks, li, placed>>
    /\ LayoutRest

\* footer texts at fy + 15, fy + 50, fy + 82; img.save
DrawFooter ==
    /\ lpc = "footer"
    /\ placed' = Append(placed, Draw("footer", fy, 0, 0, FALSE))
    /\ lpc' = "done"
    /\ UNCHANGED <<lkind, lrows, lblocks, ly, li, ld>>
    /\ LayoutRest

InitLayout == FitIdle /\ LayoutInit /\ ParseIdle /\ StoreIdle /\ RunIdle
NextLayout ==
    \/ DrawTitle \/ DrawHeader
    \/ PosterRow \/ PosterBreak \/ PosterRowsEnd
    \/ MasterDest \/ MasterBreak \/ MasterEnd \/ MasterRow \/ MasterBlockEnd
    \/ DrawFooter
SpecLayout == InitLayout /\ [][NextLayout]_vars

\* the entries of the table body drawn so far
IsBodyRow(e) == e.role \in {"row", "dest"}
BodyRows == SelectSeq(placed, IsBodyRow)
IsDataRow(e) == e.role = "row"
DataRows == SelectSeq(placed, IsDataRow)
PlacedProducts == [k \in 1..Len(DataRows) |-> DataRows[k].row]

\* ---- C1 ----------------------------------------------------------------
\* the canvas geometry in the terms of the claim: the header row is placed
\* at contentTop and consumes headerHeight, the footer band is the bottom
\* footerHeight of the canvas
contentTop == TABLE_TOP
headerHeight == ROW_H + 6
footerHeight == FOOTER_H
availableRows == (CANVAS_H - footerHeight - contentTop - headerHeight) \div ROW_H

C2_NoOverlap ==
    \A a \in 1..Len(BodyRows) :
        /\ BodyRows[a].y >= TABLE_TOP + ROW_H
        /\ BodyRows[a].y + ROW_H <= CANVAS_H - FOOTER_H
        /\ \A b \in (a + 1)..Len(BodyRows) :
              \/ BodyRows[a].y + ROW_H <= BodyRows[b].y
              \/ BodyRows[b].y + ROW_H <= BodyRows[a].y

\* a master table that ran out of room inside a block
C2_Witness ==
    /\ lkind = "master"
    /\ lpc = "blockrows"
    /\ li < lblocks[ld]
    /\ ~RowFits(ly)
    /\ Len(BodyRows) >= 2

\* ---- C6 ----------------------------------------------------------------
\* C6: the table header is placed at TABLE_TOP before any row, whatever
\* the number of rows; with zero input rows the finished poster holds the
\* header and no row entry (only title, header and footer are drawn) and
\* no row was dropped.
C6_HeaderFirst ==
    /\ lpc \notin {"idle", "title", "header"} =>
          /\ Len(placed) >= 2
          /\ placed[2].role = "header"
          /\ placed[2].y = TABLE_TOP
          /\ \A k \in 1..Len(placed) :
                (k # 2 => placed[k].role # "header")
                /\ (IsBodyRow(placed[k]) => k > 2 /\ placed[k].y >= TABLE_TOP + ROW_H)
    /\ (lkind = "poster" /\ lpc = "done" /\ lrows = <<>>) =>
          /\ [k \in 1..Len(placed) |-> placed[k].role] = <<"title", "header", "footer">>
          /\ Len(lrows) - Len(DataRows) = 0

\* a poster of zero rows is finished
C6_Witness ==
    /\ lkind = "poster" /\ lpc = "done" /\ lrows = <<>>
    /\ Len(placed) = 3

\* ========================================================================
\* parse_excel (src/app.py 136-160)
\* ========================================================================
MaxInputRows == 3

\* cell values: a number, an empty cell (read as NaN) or a text that is no number
Num(n) == <<"num", n>>
NaN == <<"nan", 0>>
Txt == <<"txt", 0>>
IsNumber(c) == c[1] = "num"

\* the strings a sheet gives for a destination and a product, as characters
RawDestinations == {<<"K">>, <<"K", " ">>}
RawProducts == {<<"u">>, <<" ", "v">>}

\* one sheet row; a sheet with a "For" column is read for that column only,
\* and a sheet without one has "Ex Price" and "Freight" (no "Margin", no "GST(5%)")
ForRows ==
    [Destination : RawDestinations, Product : RawProducts,
     For : {Num(5), Num(7), NaN, Txt}, Ex : {Num(0)}, Freight : {Num(0)}]
SumRows ==
    [Destination : RawDestinations, Product : RawProducts,
     For : {Num(0)}, Ex : {Num(5), NaN}, Freight : {Num(0), Num(2)}]

\* str.strip()
RECURSIVE LStrip(_)
LStrip(s) == IF s # <<>> /\ Head(s) = " " THEN LStrip(Tail(s)) ELSE s
RECURSIVE RStrip(_)
RStrip(s) == IF s # <<>> /\ s[Len(s)] = " " THEN RStrip(DropLast(s)) ELSE s
strip(s) == RStrip(LStrip(s))

\* the + of two columns: NaN wherever either side is NaN
Plus(a, b) == IF IsNumber(a) /\ IsNumber(b) THEN Num(a[2] + b[2]) ELSE NaN

\* df["DeliveredPrice"] = df["For"], or the four-term sum with the missing
\* columns filled with 0
DeliveredPrice(hasFor, r) ==
    IF hasFor THEN r.For
    ELSE Plus(Plus(Plus(r.Ex, r.Freight), Num(0)), Num(0))

\* pd.to_numeric(..., errors="coerce")
to_numeric(c) == IF IsNumber(c) THEN c ELSE NaN

\* the frame after the strip / to_numeric / dropna lines, as the set of its
\* (Destination, Product, DeliveredPrice) rows
CleanFrame(t) ==
    LET all == {[Destination |-> strip(t.rows[k].Destination),
                 Product |-> strip(t.rows[k].Product),
                 DeliveredPrice |-> to_numeric(DeliveredPrice(t.hasFor, t.rows[k]))]
                : k \in 1..Len(t.rows)}
    IN  {r \in all : r.DeliveredPrice # NaN}

\* faulty variant: the aggregate keeps the dearest price of a group
GroupMax(S) == CHOOSE m \in S : \A x \in S : m[2] >= x[2]
\* .min() of one group
GroupMin(S) == CHOOSE m \in S : \A x \in S : m[2] <= x[2]

\* df.groupby(["Destination", "Product"], as_index=False)["DeliveredPrice"].min()
GroupByMin(frame) ==
    LET keys == {<<r.Destination, r.Product>> : r \in frame}
        prices(k) == {r.DeliveredPrice : r \in {q \in frame : <<q.Destination, q.Product>> = k}}
    IN  {[Destination |-> k[1], Product |-> k[2], DeliveredPrice |-> GroupMin(prices(k))]
         : k \in keys}

parse_excel(t) == GroupByMin(CleanFrame(t))

ParseInit ==
    /\ ppc = "in"
    /\ \E hasFor \in BOOLEAN :
          \E rows \in SeqsUpTo(IF hasFor THEN ForRows ELSE SumRows, MaxInputRows) :
              ptable = [hasFor |-> hasFor, rows |-> rows]
    /\ pout = {}

\* df = parse_excel(uploaded.read())
ParseCall ==
    /\ ppc = "in"
    /\ pout' = parse_excel(ptable)
    /\ ppc' = "out"
    /\ UNCHANGED ptable
    /\ UNCHANGED <<fitVars, layoutVars, storeVars, runVars>>

InitParse == FitIdle /\ LayoutIdle /\ ParseInit /\ StoreIdle /\ RunIdle
NextParse == ParseCall
SpecParse == InitParse /\ [][NextParse]_vars

\* ---- C8 ----------------------------------------------------------------
\* the numeric prices the sheet holds for a (stripped) destination and product
NumericPricesOf(d, p) ==
    {DeliveredPrice(ptable.hasFor, ptable.rows[k]) :
        k \in {j \in 1..Len(ptable.rows) :
                 /\ strip(ptable.rows[j].Destination) = d
                 /\ strip(ptable.rows[j].Product) = p
                 /\ IsNumber(DeliveredPrice(ptable.hasFor, ptable.rows[j]))}}

MaxOps == 3

Sessions == {1, 2}
Destinations == {"K", "D"}
\* recipient lists a user may type, and the mark of a destination without entry
Recipients == {"sales", "purchase"}
Unset == "unset"
EmptyMapping == [d \in Destinations |-> Unset]

\* tokens of the log file: a line feed, or a line (its author and number)
NL == <<0, 0>>
OldLine == <<0, 1>>
LineOf(s, k) == <<s, k>>

\* the blob sha GitHub returns: a hash of the content, one per content
Sha(content) == content
NoSha == [some |-> FALSE, v |-> <<>>]
NoRead == [content |-> <<>>, sha |-> NoSha]

\* gh_read_text: (content, sha) on 200, ("", None) on 404
gh_read_text(file, empty) ==
    IF file.exists
    THEN [content |-> file.content, sha |-> [some |-> TRUE, v |-> Sha(file.content)]]
    ELSE [content |-> empty, sha |-> NoSha]

\* the PUT of gh_write_text answers 200/201 when the sha in the payload is
\* the file's current one, or when there is neither a sha nor a file
StoreAccepts(file, sha) ==
    IF sha.some THEN file.exists /\ Sha(file.content) = sha.v
    ELSE ~file.exists

\* content.rstrip("\n")
RECURSIVE RStripNL(_)
RStripNL(c) == IF c # <<>> /\ c[Len(c)] = NL THEN RStripNL(DropLast(c)) ELSE c
\* content.strip() is non-empty
IsLineToken(t) == t # NL
HasText(c) == SelectSeq(c, IsLineToken) # <<>>
\* the non-empty lines of the file, as tail_logs_from_github reads them
LinesOf(c) == SelectSeq(c, IsLineToken)

\* faulty variant: the new content is the new line alone
NewLogContentOverwrite(content, line) == <<line, NL>>
\* new_content = (content.rstrip("\n") + "\n" + new_line + "\n")
\*               if content.strip() else (new_line + "\n")
NewLogContent(content, line) ==
    IF HasText(content) THEN RStripNL(content) \o <<NL, line, NL>>
    ELSE <<line, NL>>

\* the repository before the sessions start: each file is missing or holds
\* what earlier runs (or a hand edit) left
MapFileInit ==
    mapFile \in {[exists |-> FALSE, content |-> EmptyMapping],
                 [exists |-> TRUE, content |-> EmptyMapping],
                 [exists |-> TRUE, content |-> [EmptyMapping EXCEPT !["K"] = "sales"]]}
LogFileInit ==
    logFile \in {[exists |-> FALSE, content |-> <<>>],
                 [exists |-> TRUE, content |-> <<OldLine, NL>>],
                 [exists |-> TRUE, content |-> <<OldLine>>],
                 [exists |-> TRUE, content |-> <<OldLine, NL, NL>>]}
SessionInit ==
    /\ spc = [s \in Sessions |-> "idle"]
    /\ smapping = [s \in Sessions |-> EmptyMapping]
    /\ smapok = [s \in Sessions |-> FALSE]
    /\ sedit = [s \in Sessions |-> "K"]
    /\ sread = [s \in Sessions |-> NoRead]
    /\ sdone = [s \in Sessions |-> 0]
    /\ sresult = [s \in Sessions |-> "none"]

StoreRest == UNCHANGED <<fitVars, layoutVars, parseVars, runVars>>

\* page run: mapping = load_mapping_from_github(); mapping_ok = True
LoadMapping(s) ==
    /\ spc[s] = "idle"
    /\ sdone[s] < MaxOps
    /\ sdone' = [sdone EXCEPT ![s] = @ + 1]
    /\ smapping' = [smapping EXCEPT ![s] = gh_read_text(mapFile, EmptyMapping).content]
    /\ smapok' = [smapok EXCEPT ![s] = TRUE]
    /\ spc' = [spc EXCEPT ![s] = "loaded"]
    /\ sresult' = [sresult EXCEPT ![s] = "none"]
    /\ UNCHANGED <<mapFile, logFile, sedit, sread>>
    /\ StoreRest

\* page run: the load raised; mapping stays {} and the page goes on
LoadMappingFails(s) ==
    /\ spc[s] = "idle"
    /\ sdone[s] < MaxOps
    /\ sdone' = [sdone EXCEPT ![s] = @ + 1]
    /\ smapping' = [smapping EXCEPT ![s] = EmptyMapping]
    /\ smapok' = [smapok EXCEPT ![s] = FALSE]
    /\ spc' = [spc EXCEPT ![s] = "loaded"]
    /\ sresult' = [sresult EXCEPT ![s] = "none"]
    /\ UNCHANGED <<mapFile, logFile, sedit, sread>>
    /\ StoreRest

\* "Save mapping" pressed: mapping[d] = [...]
EditMapping(s) ==
    /\ spc[s] = "loaded"
    /\ \E d \in Destinations, v \in Recipients :
          /\ smapping' = [smapping EXCEPT ![s][d] = v]
          /\ sedit' = [sedit EXCEPT ![s] = d]
    /\ spc' = [spc EXCEPT ![s] = "saveread"]
    /\ UNCHANGED <<mapFile, logFile, smapok, sread, sdone, sresult>>
    /\ StoreRest

\* save_mapping_to_github: content, sha = gh_read_text(MAPPING_PATH)
SaveRead(s) ==
    /\ spc[s] = "saveread"
    /\ sread' = [sread EXCEPT ![s] = gh_read_text(mapFile, EmptyMapping)]
    /\ spc' = [spc EXCEPT ![s] = "savewrite"]
    /\ UNCHANGED <<mapFile, logFile, smapping, smapok, sedit, sdone, sresult>>
    /\ StoreRest

\* save_mapping_to_github: gh_write_text(MAPPING_PATH, json.dumps(mapping), ..., sha)
SaveWrite(s) ==
    /\ spc[s] = "savewrite"
    /\ IF StoreAccepts(mapFile, sread[s].sha)
       THEN /\ mapFile' = [exists |-> TRUE, content |-> smapping[s]]
            /\ sresult' = [sresult EXCEPT ![s] = "ok"]
       ELSE /\ UNCHANGED mapFile
            /\ sresult' = [sresult EXCEPT ![s] = "error"]
    /\ sread' = [sread EXCEPT ![s] = NoRead]
    /\ spc' = [spc EXCEPT ![s] = "idle"]
    /\ UNCHANGED <<logFile, smapping, smapok, sedit, sdone>>
    /\ StoreRest

\* append_log_to_github: content, sha = gh_read_text(LOG_PATH)
AppendRead(s) ==
    /\ spc[s] = "idle"
    /\ sdone[s] < MaxOps
    /\ sdone' = [sdone EXCEPT ![s] = @ + 1]
    /\ sread' = [sread EXCEPT ![s] = gh_read_text(logFile, <<>>)]
    /\ spc' = [spc EXCEPT ![s] = "appendwrite"]
    /\ sresult' = [sresult EXCEPT ![s] = "none"]
    /\ UNCHANGED <<mapFile, logFile, smapping, smapok, sedit>>
    /\ StoreRest

\* append_log_to_github: gh_write_text(LOG_PATH, new_content, ..., sha)
AppendWrite(s) ==
    /\ spc[s] = "appendwrite"
    /\ IF StoreAccepts(logFile, sread[s].sha)
       THEN /\ logFile' = [exists |-> TRUE,
                           content |-> NewLogContent(sread[s].content, LineOf(s, sdone[s]))]
            /\ sresult' = [sresult EXCEPT ![s] = "ok"]
       ELSE /\ UNCHANGED logFile
            /\ sresult' = [sresult EXCEPT ![s] = "error"]
    /\ sread' = [sread EXCEPT ![s] = NoRead]
    /\ spc' = [spc EXCEPT ![s] = "idle"]
    /\ UNCHANGED <<mapFile, smapping, smapok, sedit, sdone>>
    /\ StoreRest

\* a GitHub request of the save in progress fails for another reason
\* (status, timeout): save_mapping_to_github raises, st.error
SaveFails(s) ==
    /\ spc[s] \in {"saveread", "savewrite"}
    /\ sresult' = [sresult EXCEPT ![s] = "error"]
    /\ sread' = [sread EXCEPT ![s] = NoRead]
    /\ spc' = [spc EXCEPT ![s] = "idle"]
    /\ UNCHANGED <<mapFile, logFile, smapping, smapok, sedit, sdone>>
    /\ StoreRest

\* the PUT of the append in progress fails for another reason:
\* append_log_to_github raises
AppendFails(s) ==
    /\ spc[s] = "appendwrite"
    /\ sresult' = [sresult EXCEPT ![s] = "error"]
    /\ sread' = [sread EXCEPT ![s] = NoRead]
    /\ spc' = [spc EXCEPT ![s] = "idle"]
    /\ UNCHANGED <<mapFile, logFile, smapping, smapok, sedit, sdone>>
    /\ StoreRest

InitMapping ==
    /\ FitIdle /\ LayoutIdle /\ ParseIdle /\ RunIdle
    /\ MapFileInit /\ SessionInit
    /\ logFile = [exists |-> FALSE, content |-> <<>>]
NextMapping ==
    \E s \in Sessions :
        \/ LoadMapping(s) \/ LoadMappingFails(s) \/ EditMapping(s)
        \/ SaveRead(s) \/ SaveWrite(s) \/ SaveFails(s)
SpecMapping == InitMapping /\ [][NextMapping]_vars

InitLog ==
    /\ FitIdle /\ LayoutIdle /\ ParseIdle /\ RunIdle
    /\ LogFileInit /\ SessionInit
    /\ mapFile = [exists |-> FALSE, content |-> EmptyMapping]
NextLog ==
    \E s \in Sessions : AppendRead(s) \/ AppendWrite(s) \/ AppendFails(s)
SpecLog == InitLog /\ [][NextLog]_vars

\* ---- C7 ----------------------------------------------------------------
\* C7: no lost update in the mapping file: a successful save by a session
\* that loaded the mapping changes the stored entry of the destination the
\* session edited and of no other destination, so a change another session
\* saved after this session loaded its copy is still in the file.
C7_NoLostUpdate ==
    [][\A s \in Sessions :
          (spc[s] = "savewrite" /\ spc'[s] = "idle" /\ smapok[s] /\ mapFile' # mapFile)
              => \A d \in Destinations \ {sedit[s]} :
                     mapFile'.content[d] = mapFile.content[d]]_vars

\* ---- C9 ----------------------------------------------------------------
\* C9: every change of the log file is one append: the lines stored
\* before are all still there, in order, followed by the new line of the
\* session whose write was accepted; a write made with a stale sha is
\* rejected and changes nothing.
C9_AppendKeepsLines ==
    [][logFile' # logFile =>
          \E s \in Sessions :
              /\ spc[s] = "appendwrite" /\ spc'[s] = "idle"
              /\ sresult'[s] = "ok"
              /\ logFile'.exists
              /\ LinesOf(logFile'.content)
                    = Append(LinesOf(logFile.content), LineOf(s, sdone[s]))]_vars

\* two sessions read the same log, one append was stored and the other
\* was rejected for its stale sha
C9_Witness ==
    \E s, t \in Sessions :
        /\ s # t
        /\ sresult[s] = "ok" /\ spc[s] = "idle"
        /\ sresult[t] = "error" /\ spc[t] = "idle"
        /\ sdone[s] = 1 /\ sdone[t] = 1
        /\ Len(LinesOf(logFile.content)) = 2
        /\ LinesOf(logFile.content)[2] = LineOf(s, 1)

\* ========================================================================
\* "Generate + Email + Downloads" (src/app.py 401-492)
\* ========================================================================
MaxSel == 3

\* the destinations of the uploaded sheet
SheetDestinations == {"K", "D", "M"}
IsSelection(q) == \A a, b \in 1..Len(q) : a # b => q[a] # q[b]
Selections == {q \in SeqsUpTo(SheetDestinations, MaxSel) : IsSelection(q)}

\* the number of send_email_with_attachments calls of a complete run
SendsNeeded(mode, sel) == IF mode = "one" THEN 1 ELSE Len(sel)

\* faulty variant: the log is written inside the destination loop, after the first send
AfterSendLogInLoop(mode, sent, sel) == "log"
\* where control goes when a send has returned: the next destination of
\* the loop, or the log block that follows the sends
AfterSend(mode, sent, sel) ==
    IF sent = SendsNeeded(mode, sel) THEN "log" ELSE "send"

RunInit ==
    /\ rpc = "click"
    /\ rmode \in {"one", "dest"}
    /\ rsel \in Selections
    /\ rsent = 0
    /\ rlog = "none"
    /\ rresult = "running"

RunRest == UNCHANGED <<fitVars, layoutVars, parseVars, storeVars>>

\* if not sel: st.warning(...); st.stop()
NothingSelected ==
    /\ rpc = "click"
    /\ rsel = <<>>
    /\ rresult' = "stopped"
    /\ rpc' = "done"
    /\ UNCHANGED <<rmode, rsel, rsent, rlog>>
    /\ RunRest

\* build_master_table and one build_poster per destination
BuildOutputs ==
    /\ rpc = "click"
    /\ rsel # <<>>
    /\ rpc' = "send"
    /\ UNCHANGED <<rmode, rsel, rsent, rlog, rresult>>
    /\ RunRest

\* load_template raises (no template file): the script run ends
BuildRaises ==
    /\ rpc = "click"
    /\ rsel # <<>>
    /\ rresult' = "raised"
    /\ rpc' = "done"
    /\ UNCHANGED <<rmode, rsel, rsent, rlog>>
    /\ RunRest

\* send_email_with_attachments returns (the one email, or the next
\* destination's email)
SendReturns ==
    /\ rpc = "send"
    /\ rsent < SendsNeeded(rmode, rsel)
    /\ rsent' = rsent + 1
    /\ rpc' = AfterSend(rmode, rsent + 1, rsel)
    /\ UNCHANGED <<rmode, rsel, rlog, rresult>>
    /\ RunRest

\* send_email_with_attachments raises (secrets missing, SMTP error): no
\* handler around it, the script run ends
SendRaises ==
    /\ rpc = "send"
    /\ rsent < SendsNeeded(rmode, rsel)
    /\ rresult' = "raised"
    /\ rpc' = "done"
    /\ UNCHANGED <<rmode, rsel, rsent, rlog>>
    /\ RunRest

\* try: append_log_to_github({...})
LogAppended ==
    /\ rpc = "log"
    /\ rlog' = "appended"
    /\ rpc' = "report"
    /\ UNCHANGED <<rmode, rsel, rsent, rresult>>
    /\ RunRest

\* except Exception as e: st.warning("Email sent, but log failed")
LogFailed ==
    /\ rpc = "log"
    /\ rlog' = "failed"
    /\ rpc' = "report"
    /\ UNCHANGED <<rmode, rsel, rsent, rresult>>
    /\ RunRest

\* st.success(...), then the download buttons
ReportSuccess ==
    /\ rpc = "report"
    /\ rresult' = "success"
    /\ rpc' = "done"
    /\ UNCHANGED <<rmode, rsel, rsent, rlog>>
    /\ RunRest

InitRun == FitIdle /\ LayoutIdle /\ ParseIdle /\ StoreIdle /\ RunInit
NextRun ==
    \/ NothingSelected \/ BuildOutputs \/ BuildRaises
    \/ SendReturns \/ SendRaises
    \/ LogAppended \/ LogFailed
    \/ ReportSuccess
SpecRun == InitRun /\ [][NextRun]_vars

\* ---- C10 ---------------------------------------------------------------
\* C10: in one run the log append is attempted only after every send of
\* the run has returned (one send in one-email mode, one per selected
\* destination in destination-wise mode); a run in which a send raised
\* ends with no log entry; a failed log append is caught and the run still
\* reports success.
C10_LogAfterAllSends ==
    /\ rlog # "none" => rsent = SendsNeeded(rmode, rsel)
    /\ rpc \in {"log", "report"} => rsent = SendsNeeded(rmode, rsel)
    /\ rresult \in {"raised", "stopped"} => rlog = "none"
    /\ (rpc = "done" /\ rlog = "failed") => rresult = "success"
    /\ rresult = "success" => rlog # "none" /\ rsent = SendsNeeded(rmode, rsel)

\* destination-wise mode: a later send raised after an earlier email was
\* delivered, and the run ended without a log entry
C10_Witness ==
    /\ rmode = "dest"
    /\ rpc = "done"
    /\ rresult = "raised"
    /\ rsent >= 1
    /\ rsent < Len(rsel)
    /\ rlog = "none"

====
